---- MODULE Spec2Model ----
(***************************************************************************)
(* Model of the Compound lending contract of src/compound.rs: the global   *)
(* COMPOUND_CONTRACT, its initialisation (init) and the four handlers that *)
(* main dispatches to (lend_tokens, borrow_tokens, refund_tokens,          *)
(* withdraw_tokens).                                                       *)
(*                                                                         *)
(* Amounts are u128 in the source; here they are unsigned Width-bit        *)
(* integers.  Arithmetic that the source writes with the bare operators    *)
(* + and - panics on overflow when the build has overflow checks and wraps *)
(* modulo 2^Width when it has not; the variable overflow_checks fixes the  *)
(* build for a whole behaviour.                                            *)
(*                                                                         *)
(* Assets (new, add_lend, add_borrow, get_lent_amount, get_borrow_amount), *)
(* safe_mul, safe_div, asserts::greater_zero, asserts::not_zero_address    *)
(* and transfer_tokens are called by src/compound.rs but defined elsewhere;*)
(* they are modelled from spec.md.  No time elapses between actions, so    *)
(* the accrual-corrected getters return the stored principals.  The signed *)
(* accrual offsets (lend_offset, borrow_offset) are i128; they are kept as *)
(* Width-bit two's complement values and every update of them wraps:       *)
(* whether an update overflows depends on the value Assets gave them, not  *)
(* on this file.  init_time feeds only the accrual formula and is not part *)
(* of this state.                                                          *)
(*                                                                         *)
(* The handlers are written `mut self`; what they write to                 *)
(* self.user_assets is taken as written to COMPOUND_CONTRACT, the value    *)
(* main hands them.                                                        *)
(*                                                                         *)
(* In Spec every handler is one atomic step: the outcome of each transfer  *)
(* it awaits is an input of the step, and a transfer that does not succeed *)
(* panics the handler.  In SpecAwait a handler is a step up to each of its *)
(* awaits, and main takes other messages while it is suspended.            *)
(***************************************************************************)
EXTENDS Integers, FiniteSets, Sequences, Bags, TLC

\* ------------------------------------------------------------------ bounds
\* The width of an amount in bits (128 in the source).
Width == 2
\* The largest amount a message carries.
MaxAmount == 3

MAX == 2^Width - 1
Accounts == {"alice", "bob"}
Amounts == 0..(IF MaxAmount < MAX THEN MaxAmount ELSE MAX)
Rates == {0, 1, 2}
InterestRates == {0, 1}

\* ------------------------------------------------------------ state
VARIABLES
    is_some,          \* COMPOUND_CONTRACT is Some(..)
    compound,         \* the Compound value (Default::default() while None)
    overflow_checks,  \* the build panics on overflow of + and - (else wraps)
    last,             \* the outcome of the last step: what was asked, the
                      \* error kind or "Ok", and the transfers requested
    pending,          \* the bag of handlers suspended at an await
    moved             \* what the transfers of the last step moved: tokens
                      \* from the caller to the contract, ctokens from the
                      \* contract to the caller (negative the other way)

vars == <<is_some, compound, overflow_checks, last, pending, moved>>

EmptyAssets == [a \in {} |-> 0]

\* Compound::default(): every number zero, zero addresses, empty map.
DefaultCompound ==
    [token_address |-> "zero", ctoken_address |-> "zero",
     interest_rate |-> 0, collateral_factor |-> 0, borrow_rate |-> 0,
     ctoken_rate |-> 0, user_assets |-> EmptyAssets]

\* ------------------------------------------------------------ arithmetic
\* Failure values of an arithmetic helper (amounts are never negative).
OVERFLOW == 0 - 1
DIVZERO == 0 - 2
Failed(x) == x < 0

\* safe_mul: checked multiply, fails instead of wrapping.
safe_mul(a, b) ==
    IF Failed(a) THEN a
    ELSE IF a * b > MAX THEN OVERFLOW ELSE a * b

\* safe_div: checked divide, truncating; fails on a zero divisor.
safe_div(a, b) ==
    IF Failed(a) THEN a
    ELSE IF b = 0 THEN DIVZERO ELSE a \div b

\* checked add used by Assets when it adds to a principal.
checked_add(a, b) == IF a + b > MAX THEN OVERFLOW ELSE a + b

\* the bare `a + b` on u128: panics or wraps with the build.
add_u(a, b) ==
    IF a + b <= MAX THEN a + b
    ELSE IF overflow_checks THEN OVERFLOW ELSE (a + b) % (2^Width)

\* the bare `a - b` on u128: panics or wraps with the build.
sub_u(a, b) ==
    IF a >= b THEN a - b
    ELSE IF overflow_checks THEN OVERFLOW ELSE (a - b) % (2^Width)

ErrorOf(x) == IF x = DIVZERO THEN "DivisionError" ELSE "ArithmeticOverflow"

count_ctokens(tokens_amount, ctoken_rate) == safe_mul(tokens_amount, ctoken_rate)

count_tokens(ctokens_amount, ctoken_rate) == safe_div(ctokens_amount, ctoken_rate)

\* ------------------------------------------------------------ Assets
\* The i128 with the bits of x.
to_i128(x) == ((x + 2^(Width - 1)) % (2^Width)) - 2^(Width - 1)

\* `offset -= amount as i128`
offset_sub(offset, amount) == to_i128(offset - to_i128(amount))

\* The offset is incremented by what is added to the principal.
offset_add(offset, amount) == to_i128(offset + amount)

AssetsNew(amount) ==
    [lent_amount |-> amount, lend_offset |-> to_i128(amount),
     borrowed_amount |-> 0, borrow_offset |-> 0]

get_lent_amount(assets) == assets.lent_amount

get_borrow_amount(assets) == assets.borrowed_amount

\* BTreeMap::entry(k).and_modify(..).or_insert_with(..) / and_modify(..)
Put(user_assets, who, assets) ==
    [a \in (DOMAIN user_assets) \cup {who} |->
        IF a = who THEN assets ELSE user_assets[a]]

\* ------------------------------------------------------------ handlers
\* The result of a handler: the error kind or "Ok", the number of transfers
\* it requested, and the user_assets it leaves.
Outcome(result, sent, user_assets) ==
    [result |-> result, sent |-> sent, user_assets |-> user_assets]

\* A panic: no handler writes user_assets before its last await.
Fail(self, kind, sent) == Outcome(kind, sent, self.user_assets)

\* lend_tokens writing the Position between its two transfers.
lend_tokens_writes_early(self, msg_source, amount, ok1, ok2) ==
    IF amount = 0 THEN Fail(self, "InvalidAmount", 0)
    ELSE IF ~ok1 THEN Fail(self, "TransferFailed", 1)
    ELSE LET ctokens_amount == count_ctokens(amount, self.ctoken_rate) IN
    IF Failed(ctokens_amount) THEN Fail(self, ErrorOf(ctokens_amount), 1)
    ELSE IF msg_source \in DOMAIN self.user_assets
    THEN LET assets == self.user_assets[msg_source]
             lent == checked_add(assets.lent_amount, ctokens_amount) IN
         IF Failed(lent) THEN Fail(self, ErrorOf(lent), 1)
         ELSE Outcome(IF ok2 THEN "Ok" ELSE "TransferFailed", 2,
                Put(self.user_assets, msg_source,
                    [assets EXCEPT !.lent_amount = lent,
                            !.lend_offset = offset_add(@, ctokens_amount)]))
    ELSE Outcome(IF ok2 THEN "Ok" ELSE "TransferFailed", 2,
            Put(self.user_assets, msg_source, AssetsNew(ctokens_amount)))

\* lend_tokens recording the base amount where it is to record the ctokens.
lend_tokens_records_base(self, msg_source, amount, ok1, ok2) ==
    IF amount = 0 THEN Fail(self, "InvalidAmount", 0)
    ELSE IF ~ok1 THEN Fail(self, "TransferFailed", 1)
    ELSE LET ctokens_amount == count_ctokens(amount, self.ctoken_rate) IN
    IF Failed(ctokens_amount) THEN Fail(self, ErrorOf(ctokens_amount), 1)
    ELSE IF ~ok2 THEN Fail(self, "TransferFailed", 2)
    ELSE IF msg_source \in DOMAIN self.user_assets
    THEN LET assets == self.user_assets[msg_source]
             lent == checked_add(assets.lent_amount, amount) IN
         IF Failed(lent) THEN Fail(self, ErrorOf(lent), 2)
         ELSE Outcome("Ok", 2,
                Put(self.user_assets, msg_source,
                    [assets EXCEPT !.lent_amount = lent,
                            !.lend_offset = offset_add(@, amount)]))
    ELSE Outcome("Ok", 2,
            Put(self.user_assets, msg_source, AssetsNew(amount)))

lend_tokens(self, msg_source, amount, ok1, ok2) ==
    IF amount = 0 THEN Fail(self, "InvalidAmount", 0)
    ELSE IF ~ok1 THEN Fail(self, "TransferFailed", 1)
    ELSE LET ctokens_amount == count_ctokens(amount, self.ctoken_rate) IN
    IF Failed(ctokens_amount) THEN Fail(self, ErrorOf(ctokens_amount), 1)
    ELSE IF ~ok2 THEN Fail(self, "TransferFailed", 2)
    ELSE IF msg_source \in DOMAIN self.user_assets
    THEN LET assets == self.user_assets[msg_source]
             lent == checked_add(assets.lent_amount, ctokens_amount) IN
         IF Failed(lent) THEN Fail(self, ErrorOf(lent), 2)
         ELSE Outcome("Ok", 2,
                Put(self.user_assets, msg_source,
                    [assets EXCEPT !.lent_amount = lent,
                            !.lend_offset = offset_add(@, ctokens_amount)]))
    ELSE Outcome("Ok", 2,
            Put(self.user_assets, msg_source, AssetsNew(ctokens_amount)))

\* borrow_tokens with the collateral check forgetting the requested amount.
borrow_tokens_ignores_amount(self, msg_source, amount, ok) ==
    IF amount = 0 THEN Fail(self, "InvalidAmount", 0)
    ELSE IF msg_source \notin DOMAIN self.user_assets
    THEN Fail(self, "NoPosition", 0)
    ELSE LET assets == self.user_assets[msg_source]
             max_borrow == count_tokens(
                 safe_mul(assets.lent_amount, self.collateral_factor),
                 self.ctoken_rate) IN
    IF Failed(max_borrow) THEN Fail(self, ErrorOf(max_borrow), 0)
    ELSE IF max_borrow < assets.borrowed_amount
    THEN Fail(self, "InsufficientCollateral", 0)
    ELSE IF ~ok THEN Fail(self, "TransferFailed", 1)
    ELSE LET borrowed == checked_add(assets.borrowed_amount, amount) IN
    IF Failed(borrowed) THEN Fail(self, ErrorOf(borrowed), 1)
    ELSE Outcome("Ok", 1,
            Put(self.user_assets, msg_source,
                [assets EXCEPT !.borrowed_amount = borrowed,
                        !.borrow_offset = offset_add(@, amount)]))

borrow_tokens(self, msg_source, amount, ok) ==
    IF amount = 0 THEN Fail(self, "InvalidAmount", 0)
    ELSE IF msg_source \notin DOMAIN self.user_assets
    THEN Fail(self, "NoPosition", 0)
    ELSE LET assets == self.user_assets[msg_source]
             max_borrow == count_tokens(
                 safe_mul(assets.lent_amount, self.collateral_factor),
                 self.ctoken_rate)
             wanted == add_u(assets.borrowed_amount, amount) IN
    IF Failed(max_borrow) THEN Fail(self, ErrorOf(max_borrow), 0)
    ELSE IF Failed(wanted) THEN Fail(self, ErrorOf(wanted), 0)
    ELSE IF max_borrow < wanted THEN Fail(self, "InsufficientCollateral", 0)
    ELSE IF ~ok THEN Fail(self, "TransferFailed", 1)
    ELSE LET borrowed == checked_add(assets.borrowed_amount, amount) IN
    IF Failed(borrowed) THEN Fail(self, ErrorOf(borrowed), 1)
    ELSE Outcome("Ok", 1,
            Put(self.user_assets, msg_source,
                [assets EXCEPT !.borrowed_amount = borrowed,
                        !.borrow_offset = offset_add(@, amount)]))

\* refund_tokens without the check of the amount.
refund_tokens_accepts_zero(self, msg_source, amount, ok) ==
    IF msg_source \notin DOMAIN self.user_assets
    THEN Fail(self, "NoPosition", 0)
    ELSE LET assets == self.user_assets[msg_source] IN
    IF ~(get_borrow_amount(assets) >= amount)
    THEN Fail(self, "RefundExceedsDebt", 0)
    ELSE IF ~ok THEN Fail(self, "TransferFailed", 1)
    ELSE LET borrowed == sub_u(assets.borrowed_amount, amount) IN
    IF Failed(borrowed) THEN Fail(self, ErrorOf(borrowed), 1)
    ELSE Outcome("Ok", 1,
            Put(self.user_assets, msg_source,
                [assets EXCEPT !.borrowed_amount = borrowed,
                        !.borrow_offset = offset_sub(@, amount)]))

\* refund_tokens taking a missing Position for one without debt.
refund_tokens_missing_as_zero(self, msg_source, amount, ok) ==
    IF amount = 0 THEN Fail(self, "InvalidAmount", 0)
    ELSE IF msg_source \notin DOMAIN self.user_assets
    THEN Fail(self, "RefundExceedsDebt", 0)
    ELSE LET assets == self.user_assets[msg_source] IN
    IF ~(get_borrow_amount(assets) >= amount)
    THEN Fail(self, "RefundExceedsDebt", 0)
    ELSE IF ~ok THEN Fail(self, "TransferFailed", 1)
    ELSE LET borrowed == sub_u(assets.borrowed_amount, amount) IN
    IF Failed(borrowed) THEN Fail(self, ErrorOf(borrowed), 1)
    ELSE Outcome("Ok", 1,
            Put(self.user_assets, msg_source,
                [assets EXCEPT !.borrowed_amount = borrowed,
                        !.borrow_offset = offset_sub(@, amount)]))

\* refund_tokens refusing the refund of the whole debt (> for >=).
refund_tokens_strict(self, msg_source, amount, ok) ==
    IF amount = 0 THEN Fail(self, "InvalidAmount", 0)
    ELSE IF msg_source \notin DOMAIN self.user_assets
    THEN Fail(self, "NoPosition", 0)
    ELSE LET assets == self.user_assets[msg_source] IN
    IF ~(get_borrow_amount(assets) > amount)
    THEN Fail(self, "RefundExceedsDebt", 0)
    ELSE IF ~ok THEN Fail(self, "TransferFailed", 1)
    ELSE LET borrowed == sub_u(assets.borrowed_amount, amount) IN
    IF Failed(borrowed) THEN Fail(self, ErrorOf(borrowed), 1)
    ELSE Outcome("Ok", 1,
            Put(self.user_assets, msg_source,
                [assets EXCEPT !.borrowed_amount = borrowed,
                        !.borrow_offset = offset_sub(@, amount)]))

refund_tokens(self, msg_source, amount, ok) ==
    IF amount = 0 THEN Fail(self, "InvalidAmount", 0)
    ELSE IF msg_source \notin DOMAIN self.user_assets
    THEN Fail(self, "NoPosition", 0)
    ELSE LET assets == self.user_assets[msg_source] IN
    IF ~(get_borrow_amount(assets) >= amount)
    THEN Fail(self, "RefundExceedsDebt", 0)
    ELSE IF ~ok THEN Fail(self, "TransferFailed", 1)
    ELSE LET borrowed == sub_u(assets.borrowed_amount, amount) IN
    IF Failed(borrowed) THEN Fail(self, ErrorOf(borrowed), 1)
    ELSE Outcome("Ok", 1,
            Put(self.user_assets, msg_source,
                [assets EXCEPT !.borrowed_amount = borrowed,
                        !.borrow_offset = offset_sub(@, amount)]))

withdraw_tokens(self, msg_source, amount, ok1, ok2) ==
    IF msg_source \notin DOMAIN self.user_assets
    THEN Fail(self, "NoPosition", 0)
    ELSE LET assets == self.user_assets[msg_source]
             lent_value == count_tokens(get_lent_amount(assets), self.ctoken_rate) IN
    IF Failed(lent_value) THEN Fail(self, ErrorOf(lent_value), 0)
    ELSE IF ~(lent_value < amount) THEN Fail(self, "WithdrawExceedsBalance", 0)
    ELSE LET rest == sub_u(get_lent_amount(assets), amount) IN
    IF Failed(rest) THEN Fail(self, ErrorOf(rest), 0)
    ELSE LET max_borrow == count_tokens(
                 safe_mul(rest, self.collateral_factor), self.ctoken_rate) IN
    IF Failed(max_borrow) THEN Fail(self, ErrorOf(max_borrow), 0)
    ELSE IF max_borrow < get_borrow_amount(assets)
    THEN Fail(self, "InsufficientCollateral", 0)
    ELSE LET ctokens_amount == count_ctokens(amount, self.ctoken_rate) IN
    IF Failed(ctokens_amount) THEN Fail(self, ErrorOf(ctokens_amount), 0)
    ELSE IF ~ok1 THEN Fail(self, "TransferFailed", 1)
    ELSE IF ~ok2 THEN Fail(self, "TransferFailed", 2)
    ELSE LET lent == sub_u(assets.lent_amount, amount) IN
    IF Failed(lent) THEN Fail(self, ErrorOf(lent), 2)
    ELSE Outcome("Ok", 2,
            Put(self.user_assets, msg_source,
                [assets EXCEPT !.lent_amount = lent,
                        !.lend_offset = offset_sub(@, amount)]))

\* ------------------------------------------------------------ init
AllConfigs ==
    [token_address : {"zero", "token"}, ctoken_address : {"zero", "ctoken"},
     interest_rate : InterestRates, collateral_factor : Rates,
     borrow_rate : InterestRates, ctoken_rate : Rates]

\* The configs a step draws from: at most one of the checked fields is bad.
Bad(config) ==
    (IF config.token_address = "zero" THEN 1 ELSE 0)
    + (IF config.ctoken_address = "zero" THEN 1 ELSE 0)
    + (IF config.interest_rate = 0 THEN 1 ELSE 0)
    + (IF config.collateral_factor = 0 THEN 1 ELSE 0)
    + (IF config.borrow_rate = 0 THEN 1 ELSE 0)

Configs ==
    {config \in AllConfigs :
        \/ Bad(config) = 0
        \/ Bad(config) = 1 /\ config.ctoken_rate = 1
                           /\ config.collateral_factor \in {0, 1}}

\* The checks of init, in order; "Ok" when all pass.
init_check(config) ==
    IF config.token_address = "zero" THEN "InvalidConfig"
    ELSE IF config.ctoken_address = "zero" THEN "InvalidConfig"
    ELSE IF ~(config.interest_rate > 0) THEN "InvalidConfig"
    ELSE IF ~(config.collateral_factor > 0) THEN "InvalidConfig"
    ELSE IF ~(config.borrow_rate > 0) THEN "InvalidConfig"
    ELSE "Ok"

\* The Compound that init builds from a config: ..Default::default() for
\* the fields it does not name (user_assets).
init_compound(config) ==
    [token_address |-> config.token_address,
     ctoken_address |-> config.ctoken_address,
     interest_rate |-> config.interest_rate,
     collateral_factor |-> config.collateral_factor,
     borrow_rate |-> config.borrow_rate,
     ctoken_rate |-> config.ctoken_rate,
     user_assets |-> DefaultCompound.user_assets]

\* ------------------------------------------------------------ actions
NoLast == [op |-> "None", who |-> "nobody", amount |-> 0, result |-> "Ok", sent |-> 0]

\* No transfer took effect.
NoneMoved == [token |-> 0, ctoken |-> 0]

\* The transfers of a handler that took effect: all it requested, but the
\* last one when that is the one that failed.
transfers_done(out) ==
    IF out.result = "TransferFailed" THEN out.sent - 1 ELSE out.sent

\* What the transfers of a handler move: Lend takes tokens and then gives
\* ctokens, Borrow gives tokens, Refund takes tokens, Withdraw takes ctokens
\* and then gives tokens.
Moved(op, amount, ctoken_rate, done) ==
    [token |-> IF op \in {"Lend", "Refund"} /\ done >= 1 THEN amount
               ELSE IF op = "Borrow" /\ done >= 1 THEN 0 - amount
               ELSE IF op = "Withdraw" /\ done >= 2 THEN 0 - amount
               ELSE 0,
     ctoken |-> IF op = "Lend" /\ done >= 2 THEN amount * ctoken_rate
                ELSE IF op = "Withdraw" /\ done >= 1
                     THEN 0 - amount * ctoken_rate
                ELSE 0]

Init ==
    /\ is_some = FALSE
    /\ compound = DefaultCompound
    /\ overflow_checks \in BOOLEAN
    /\ last = NoLast
    /\ pending = EmptyBag
    /\ moved = NoneMoved

\* init(): a failed check panics and leaves COMPOUND_CONTRACT as it was.
InitContract ==
    \E config \in Configs :
        LET r == init_check(config) IN
        /\ is_some' = IF r = "Ok" THEN TRUE ELSE is_some
        /\ compound' = IF r = "Ok" THEN init_compound(config) ELSE compound
        /\ last' = [op |-> "Init", who |-> "nobody", amount |-> 0,
                    result |-> r, sent |-> 0]
        /\ moved' = NoneMoved
        /\ UNCHANGED <<overflow_checks, pending>>

\* main(): COMPOUND_CONTRACT.get_or_insert(Default::default()), then the
\* handler.  What a handler wrote before an await it reached stays; a panic
\* discards only what was written since the last await, so the handler's
\* outcome names the user_assets the step leaves.
Commit(op, who, amount, out) ==
    /\ is_some' = (is_some \/ out.result = "Ok" \/ out.sent > 0)
    /\ compound' = [compound EXCEPT !.user_assets = out.user_assets]
    /\ last' = [op |-> op, who |-> who, amount |-> amount,
                result |-> out.result, sent |-> out.sent]
    /\ moved' = Moved(op, amount, compound.ctoken_rate, transfers_done(out))
    /\ UNCHANGED overflow_checks

\* The outcomes of two transfers awaited in turn (the second is requested
\* only when the first succeeded).
TwoTransfers == {<<TRUE, TRUE>>, <<TRUE, FALSE>>, <<FALSE, FALSE>>}

Lend ==
    \E who \in Accounts, amount \in Amounts, oks \in TwoTransfers :
        /\ Commit("Lend", who, amount,
                  lend_tokens(compound, who, amount, oks[1], oks[2]))
        /\ UNCHANGED pending

Borrow ==
    \E who \in Accounts, amount \in Amounts, ok \in BOOLEAN :
        /\ Commit("Borrow", who, amount, borrow_tokens(compound, who, amount, ok))
        /\ UNCHANGED pending

Refund ==
    \E who \in Accounts, amount \in Amounts, ok \in BOOLEAN :
        /\ Commit("Refund", who, amount, refund_tokens(compound, who, amount, ok))
        /\ UNCHANGED pending

Withdraw ==
    \E who \in Accounts, amount \in Amounts, oks \in TwoTransfers :
        /\ Commit("Withdraw", who, amount,
                  withdraw_tokens(compound, who, amount, oks[1], oks[2]))
        /\ UNCHANGED pending

Next == InitContract \/ Lend \/ Borrow \/ Refund \/ Withdraw

Spec == Init /\ [][Next]_vars

TypeOK ==
    /\ is_some \in BOOLEAN
    /\ overflow_checks \in BOOLEAN
    /\ DOMAIN compound.user_assets \subseteq Accounts
    /\ \A a \in DOMAIN compound.user_assets :
         /\ compound.user_assets[a].lent_amount \in 0..MAX
         /\ compound.user_assets[a].borrowed_amount \in 0..MAX
         /\ compound.user_assets[a].lend_offset \in (0 - 2^(Width - 1))..(2^(Width - 1) - 1)
         /\ compound.user_assets[a].borrow_offset \in (0 - 2^(Width - 1))..(2^(Width - 1) - 1)

\* ------------------------------------------------------------ awaits
\* The handlers again, on a contract that init has set up with positive
\* rates, with every await a point where main may take another message:
\* a handler runs to its next await, and goes on from it when the transfer
\* resolves, on the Compound that is there by then.
MaxPending == 2

\* The rates of the contracts whose handlers are followed through awaits,
\* and the accounts that send them messages.
AwaitRates == {1, 2}

AwaitAccounts == {"alice"}

\* The awaited transfers of a handler.
Transfers(op) == IF op \in {"Lend", "Withdraw"} THEN 2 ELSE 1

handle(self, op, who, amount, ok1, ok2) ==
    CASE op = "Lend" -> lend_tokens(self, who, amount, ok1, ok2)
      [] op = "Borrow" -> borrow_tokens(self, who, amount, ok1)
      [] op = "Refund" -> refund_tokens(self, who, amount, ok1)
      [] op = "Withdraw" -> withdraw_tokens(self, who, amount, ok1, ok2)

\* borrow_tokens checking the collateral again once the transfer is made.
borrow_commit_checks_late(self, msg_source, amount) ==
    IF msg_source \notin DOMAIN self.user_assets
    THEN Outcome("Ok", 1, self.user_assets)
    ELSE LET assets == self.user_assets[msg_source]
             max_borrow == count_tokens(
                 safe_mul(assets.lent_amount, self.collateral_factor),
                 self.ctoken_rate)
             borrowed == checked_add(assets.borrowed_amount, amount) IN
    IF Failed(borrowed) THEN Fail(self, ErrorOf(borrowed), 1)
    ELSE IF max_borrow < borrowed THEN Fail(self, "InsufficientCollateral", 1)
    ELSE Outcome("Ok", 1,
            Put(self.user_assets, msg_source,
                [assets EXCEPT !.borrowed_amount = borrowed,
                        !.borrow_offset = offset_add(@, amount)]))

\* borrow_tokens from its await on: entry(msg_source).and_modify(add_borrow).
borrow_commit(self, msg_source, amount) ==
    IF msg_source \notin DOMAIN self.user_assets
    THEN Outcome("Ok", 1, self.user_assets)
    ELSE LET assets == self.user_assets[msg_source]
             borrowed == checked_add(assets.borrowed_amount, amount) IN
    IF Failed(borrowed) THEN Fail(self, ErrorOf(borrowed), 1)
    ELSE Outcome("Ok", 1,
            Put(self.user_assets, msg_source,
                [assets EXCEPT !.borrowed_amount = borrowed,
                        !.borrow_offset = offset_add(@, amount)]))

\* refund_tokens from its await on.
refund_commit(self, msg_source, amount) ==
    IF msg_source \notin DOMAIN self.user_assets
    THEN Outcome("Ok", 1, self.user_assets)
    ELSE LET assets == self.user_assets[msg_source]
             borrowed == sub_u(assets.borrowed_amount, amount) IN
    IF Failed(borrowed) THEN Fail(self, ErrorOf(borrowed), 1)
    ELSE Outcome("Ok", 1,
            Put(self.user_assets, msg_source,
                [assets EXCEPT !.borrowed_amount = borrowed,
                        !.borrow_offset = offset_sub(@, amount)]))

\* withdraw_tokens from its second await on.
withdraw_commit(self, msg_source, amount) ==
    IF msg_source \notin DOMAIN self.user_assets
    THEN Outcome("Ok", 2, self.user_assets)
    ELSE LET assets == self.user_assets[msg_source]
             lent == sub_u(assets.lent_amount, amount) IN
    IF Failed(lent) THEN Fail(self, ErrorOf(lent), 2)
    ELSE Outcome("Ok", 2,
            Put(self.user_assets, msg_source,
                [assets EXCEPT !.lent_amount = lent,
                        !.lend_offset = offset_sub(@, amount)]))

\* A handler at an await: pc 0 when it has ended, else the await it is at.
At(out, pc) ==
    [result |-> IF pc = 0 THEN out.result ELSE "Awaiting", sent |-> out.sent,
     user_assets |-> out.user_assets, pc |-> pc]

\* The handler of call from the await call.pc on, the transfer resolved as
\* ok.  lend_tokens checks nothing of the state before its awaits, so what
\* it does from the second on is what it does with both transfers made.
after_await(self, call, ok) ==
    IF ~ok THEN At(Fail(self, "TransferFailed", call.pc), 0)
    ELSE IF call.op = "Lend" /\ call.pc = 1
    THEN LET ctokens_amount == count_ctokens(call.amount, self.ctoken_rate) IN
         IF Failed(ctokens_amount)
         THEN At(Fail(self, ErrorOf(ctokens_amount), 1), 0)
         ELSE At(Fail(self, "Awaiting", 2), 2)
    ELSE IF call.op = "Withdraw" /\ call.pc = 1
    THEN At(Fail(self, "Awaiting", 2), 2)
    ELSE At(CASE call.op = "Lend" ->
                   lend_tokens(self, call.who, call.amount, TRUE, TRUE)
              [] call.op = "Borrow" ->
                   borrow_commit(self, call.who, call.amount)
              [] call.op = "Refund" ->
                   refund_commit(self, call.who, call.amount)
              [] call.op = "Withdraw" ->
                   withdraw_commit(self, call.who, call.amount), 0)

InitAwait ==
    /\ is_some = TRUE
    /\ \E config \in Configs :
         /\ init_check(config) = "Ok"
         /\ config.ctoken_rate \in AwaitRates
         /\ config.collateral_factor \in AwaitRates
         /\ compound = init_compound(config)
    /\ overflow_checks \in BOOLEAN
    /\ last = [op |-> "Init", who |-> "nobody", amount |-> 0,
               result |-> "Ok", sent |-> 0]
    /\ pending = EmptyBag
    /\ moved = NoneMoved

\* main() takes a message: the handler runs until it panics or awaits its
\* first transfer (the handler with that transfer failing, less the failure).
Receive ==
    \E op \in {"Lend", "Borrow", "Refund", "Withdraw"},
       who \in AwaitAccounts, amount \in Amounts :
        LET out == handle(compound, op, who, amount, FALSE, FALSE)
            awaits == out.result = "TransferFailed"
        IN  /\ BagCardinality(pending) < MaxPending
            /\ compound' = [compound EXCEPT !.user_assets = out.user_assets]
            /\ pending' = IF awaits
                          THEN pending (+) SetToBag({[op |-> op, who |-> who,
                                                      amount |-> amount,
                                                      pc |-> 1]})
                          ELSE pending
            /\ last' = [op |-> op, who |-> who, amount |-> amount,
                        result |-> IF awaits THEN "Awaiting" ELSE out.result,
                        sent |-> out.sent]
            /\ UNCHANGED <<is_some, overflow_checks, moved>>

\* A transfer resolves and its handler goes on, whichever it is.
Resume ==
    \E call \in BagToSet(pending), ok \in BOOLEAN :
        LET at == after_await(compound, call, ok)
            others == pending (-) SetToBag({call})
        IN  /\ compound' = [compound EXCEPT !.user_assets = at.user_assets]
            /\ pending' = IF at.pc = 0 THEN others
                          ELSE others (+) SetToBag({[call EXCEPT !.pc = at.pc]})
            /\ last' = [op |-> call.op, who |-> call.who,
                        amount |-> call.amount,
                        result |-> at.result, sent |-> at.sent]
            /\ UNCHANGED <<is_some, overflow_checks, moved>>

NextAwait == Receive \/ Resume

SpecAwait == InitAwait /\ [][NextAwait]_vars

\* ------------------------------------------------------------ properties
Handlers == {"Lend", "Borrow", "Refund", "Withdraw"}

user_assets == compound.user_assets

HasPosition(a) == a \in DOMAIN user_assets

\* The base-asset value of an amount of ctokens, as a number (the rate is
\* positive).
Value(ctokens_amount) == ctokens_amount \div compound.ctoken_rate

\* countTokens(lentAmount * collateralFactor, exchangeRate) >= borrowedAmount;
\* with a zero rate no borrow is possible at all.
Solvent(assets) ==
    IF compound.ctoken_rate = 0 THEN assets.borrowed_amount = 0
    ELSE Value(assets.lent_amount * compound.collateral_factor)
            >= assets.borrowed_amount

\* C1: after any sequence of Lend, Borrow, Refund and Withdraw actions, each
\* processed to completion, every account's Position satisfies
\* countTokens(lentAmount * collateralFactor, exchangeRate) >= borrowedAmount.
C1_Solvency == \A a \in DOMAIN user_assets : Solvent(user_assets[a])

\* A Borrow has just taken an account to the limit of its collateral.
C1_Witness ==
    /\ last.op = "Borrow" /\ last.result = "Ok"
    /\ compound.ctoken_rate > 0
    /\ user_assets[last.who].borrowed_amount > 0
    /\ user_assets[last.who].borrowed_amount
         = Value(user_assets[last.who].lent_amount * compound.collateral_factor)

\* The rates init is to have validated.
ValidRates ==
    /\ compound.interest_rate > 0 /\ compound.borrow_rate > 0
    /\ compound.collateral_factor > 0 /\ compound.ctoken_rate > 0

\* C2: for every validated collateralFactor and exchangeRate, an account's
\* borrowedAmount never exceeds the base-asset value of its collateral,
\* countTokens(lentAmount, exchangeRate).
C2_OverCollateralized ==
    ValidRates =>
        \A a \in DOMAIN user_assets :
            user_assets[a].borrowed_amount <= Value(user_assets[a].lent_amount)

\* C3: no Refund or Withdraw subtracts more than the stored principal: one
\* that asks for more fails and leaves the Position as it was.
C3_NoSubtractionBelowZero ==
    [][(/\ last'.op \in {"Refund", "Withdraw"}
        /\ HasPosition(last'.who)
        /\ last'.amount >
             (IF last'.op = "Refund"
              THEN user_assets[last'.who].borrowed_amount
              ELSE user_assets[last'.who].lent_amount))
       => (/\ last'.result # "Ok"
           /\ compound'.user_assets = user_assets)]_vars

\* C4: Withdraw(amount) of an account with a Position is rejected with
\* WithdrawExceedsBalance exactly when countTokens(lentAmount, exchangeRate)
\* is less than amount.
C4_WithdrawBalanceCheck ==
    [][(/\ last'.op = "Withdraw"
        /\ HasPosition(last'.who)
        /\ compound.ctoken_rate > 0)
       => ((last'.result = "WithdrawExceedsBalance")
             <=> (Value(user_assets[last'.who].lent_amount) < last'.amount))]_vars

\* C5: a successful Lend(amount) immediately followed by Withdraw(amount) of
\* the same account, the transfers succeeding, succeeds (both base-asset
\* transfers of amount made) and returns lentAmount to its value before the
\* Lend.
C5_LendWithdrawRoundTrip ==
    [][(/\ ValidRates
        /\ last.op = "Lend" /\ last.result = "Ok"
        /\ last'.op = "Withdraw" /\ last'.who = last.who
        /\ last'.amount = last.amount
        /\ last'.result # "TransferFailed")
       => (/\ last'.result = "Ok" /\ last'.sent = 2
           /\ compound'.user_assets[last.who].lent_amount
                = user_assets[last.who].lent_amount
                    - last.amount * compound.ctoken_rate)]_vars

\* C6: Borrow(amount > 0) of an account with a Position (its borrowing limit
\* countTokens(lentAmount * collateralFactor, exchangeRate) being defined)
\* fails with InsufficientCollateral, no transfer requested and no state
\* changed, exactly when the limit is less than borrowedAmount + amount;
\* otherwise, the transfer succeeding, it adds amount to borrowedAmount and
\* leaves lentAmount alone.  Stated for the build whose + wraps, where the
\* handler goes on past the check.
C6_BorrowGate ==
    [][(/\ ~overflow_checks
        /\ last'.op = "Borrow" /\ last'.amount > 0
        /\ HasPosition(last'.who)
        /\ compound.ctoken_rate > 0
        /\ user_assets[last'.who].lent_amount * compound.collateral_factor <= MAX)
       => LET assets == user_assets[last'.who]
              limit == Value(assets.lent_amount * compound.collateral_factor)
          IN  IF limit < assets.borrowed_amount + last'.amount
              THEN /\ last'.result = "InsufficientCollateral"
                   /\ last'.sent = 0
                   /\ compound' = compound
              ELSE \/ /\ last'.result = "TransferFailed"
                      /\ compound' = compound
                   \/ /\ last'.result = "Ok"
                      /\ compound'.user_assets[last'.who].borrowed_amount
                           = assets.borrowed_amount + last'.amount
                      /\ compound'.user_assets[last'.who].lent_amount
                           = assets.lent_amount
         ]_vars

\* C7: a Withdraw(amount) that the lent balance covers but that would leave
\* countTokens((lentAmount - amount) * collateralFactor, exchangeRate) below
\* borrowedAmount fails with InsufficientCollateral, requests no transfer
\* and leaves the Position as it was.
C7_WithdrawCollateralGate ==
    [][(/\ last'.op = "Withdraw"
        /\ HasPosition(last'.who)
        /\ compound.ctoken_rate > 0
        /\ Value(user_assets[last'.who].lent_amount) >= last'.amount
        /\ user_assets[last'.who].lent_amount >= last'.amount
        /\ Value((user_assets[last'.who].lent_amount - last'.amount)
                    * compound.collateral_factor)
             < user_assets[last'.who].borrowed_amount)
       => (/\ last'.result = "InsufficientCollateral"
           /\ last'.sent = 0
           /\ compound'.user_assets = user_assets)]_vars

\* C8: in each handler, when a transfer it requested does not succeed the
\* action fails and the positions map is what it was before the action.
C8_TransferFailureChangesNothing ==
    [][(last'.op \in Handlers /\ last'.result = "TransferFailed")
       => compound'.user_assets = user_assets]_vars

\* The second transfer of a Lend of an account with a Position has failed.
C8_Witness ==
    /\ last.op = "Lend" /\ last.result = "TransferFailed" /\ last.sent = 2
    /\ ValidRates
    /\ HasPosition(last.who)

\* C9: in every state in which an action is processed, interestRate,
\* borrowRate, collateralFactor and exchangeRate are all positive: init
\* accepts no other configuration and no action runs on a Ledger that init
\* did not build.
C9_RatesPositive ==
    /\ (last.op = "Init" /\ last.result = "Ok") => ValidRates
    /\ last.op \in Handlers => ValidRates

\* C10: Lend(0), Borrow(0) and Refund(0) fail with InvalidAmount, request no
\* transfer and leave the whole state of the Ledger unchanged.
C10_ZeroAmountRejected ==
    [][(last'.op \in {"Lend", "Borrow", "Refund"} /\ last'.amount = 0)
       => (/\ last'.result = "InvalidAmount"
           /\ last'.sent = 0
           /\ compound' = compound
           /\ is_some' = is_some)]_vars

\* Refund(0) of an account that has a debt has been rejected.
C10_Witness ==
    /\ last.op = "Refund" /\ last.amount = 0 /\ last.result = "InvalidAmount"
    /\ HasPosition(last.who)
    /\ user_assets[last.who].borrowed_amount > 0

\* C11, as claimed: Borrow, Refund or Withdraw of an account without a
\* Position fails with NoPosition, requests no transfer and creates no
\* Position.
C11_NoPositionAnyAmount ==
    [][(/\ last'.op \in {"Borrow", "Refund", "Withdraw"}
        /\ ~HasPosition(last'.who))
       => (/\ last'.result = "NoPosition"
           /\ last'.sent = 0
           /\ last'.who \notin DOMAIN compound'.user_assets)]_vars

\* C11, amended: Borrow or Refund of an amount > 0, or Withdraw of any
\* amount, of an account without a Position fails with NoPosition, requests
\* no transfer and creates no Position.
C11_NoPosition ==
    [][(/\ last'.op \in {"Borrow", "Refund", "Withdraw"}
        /\ (last'.op = "Withdraw" \/ last'.amount > 0)
        /\ ~HasPosition(last'.who))
       => (/\ last'.result = "NoPosition"
           /\ last'.sent = 0
           /\ compound' = compound)]_vars

\* A Refund of an account without a Position has failed while another
\* account has one.
C11_Witness ==
    /\ last.op = "Refund" /\ last.result = "NoPosition"
    /\ ~HasPosition(last.who)
    /\ ValidRates
    /\ user_assets # EmptyAssets

\* C12: no arithmetic step of a handler wraps: when amount * exchangeRate,
\* lentAmount * collateralFactor, borrowedAmount + amount or a subtraction
\* from a principal that the handler comes to falls outside [0, 2^Width),
\* the action fails with ArithmeticOverflow, no transfer made and no state
\* changed.
C12_OverflowFailsCleanly ==
    [][(/\ last'.op \in Handlers
        /\ last'.result # "TransferFailed"
        /\ \/ /\ last'.op = "Lend" /\ last'.amount > 0
              /\ last'.amount * compound.ctoken_rate > MAX
           \/ /\ last'.op = "Borrow" /\ last'.amount > 0
              /\ HasPosition(last'.who)
              /\ \/ user_assets[last'.who].lent_amount
                      * compound.collateral_factor > MAX
                 \/ /\ compound.ctoken_rate > 0
                    /\ user_assets[last'.who].borrowed_amount
                         + last'.amount > MAX
           \/ /\ last'.op = "Withdraw"
              /\ HasPosition(last'.who)
              /\ compound.ctoken_rate > 0
              /\ Value(user_assets[last'.who].lent_amount) < last'.amount
              /\ user_assets[last'.who].lent_amount < last'.amount)
       => (/\ last'.result = "ArithmeticOverflow"
           /\ last'.sent = 0
           /\ compound' = compound)]_vars

C14_LendEffect ==
    [][(last'.op = "Lend" /\ last'.result = "Ok")
       => LET who == last'.who
              minted == last'.amount * compound.ctoken_rate
              after == compound'.user_assets
          IN  /\ DOMAIN after = DOMAIN user_assets \cup {who}
              /\ \A a \in DOMAIN user_assets \ {who} : after[a] = user_assets[a]
              /\ IF HasPosition(who)
                 THEN /\ after[who].lent_amount
                           = user_assets[who].lent_amount + minted
                      /\ after[who].borrowed_amount
                           = user_assets[who].borrowed_amount
                 ELSE /\ after[who].lent_amount = minted
                      /\ after[who].borrowed_amount = 0]_vars

\* A Lend has added to a Position that held something already.
C14_Witness ==
    /\ last.op = "Lend" /\ last.result = "Ok"
    /\ ValidRates
    /\ user_assets[last.who].lent_amount
         > last.amount * compound.ctoken_rate

\* C15: the set of accounts holding a Position only grows, an account
\* entering it only by its own successful Lend, whatever step is taken (a
\* later call of init included).
C15_PositionsOnlyGrow ==
    [][/\ DOMAIN user_assets \subseteq DOMAIN compound'.user_assets
       /\ \A a \in (DOMAIN compound'.user_assets) \ (DOMAIN user_assets) :
            last'.op = "Lend" /\ last'.who = a /\ last'.result = "Ok"]_vars

\* The errors of the checks a handler makes of its message and of the
\* caller's Position.
ValidationErrors ==
    {"InvalidAmount", "NoPosition", "RefundExceedsDebt",
     "WithdrawExceedsBalance", "InsufficientCollateral"}

\* C16: with handlers suspended at their transfers while other messages are
\* handled, every account's Position still satisfies
\* countTokens(lentAmount * collateralFactor, exchangeRate) >= borrowedAmount
\* after every commit.
C16_SolvencyInterleaved ==
    [][compound'.user_assets # user_assets
       => \A a \in DOMAIN compound'.user_assets :
            Value(compound'.user_assets[a].lent_amount
                    * compound.collateral_factor)
              >= compound'.user_assets[a].borrowed_amount]_vars

\* C17: with handlers suspended at their transfers while other messages are
\* handled, a Refund(amount) that goes on after its transfer finds the
\* caller's borrowedAmount still >= amount.
C17_RefundNotStale ==
    [][(/\ last'.op = "Refund"
        /\ last'.sent = 1
        /\ last'.result \notin {"Awaiting", "TransferFailed"})
       => (/\ HasPosition(last'.who)
           /\ user_assets[last'.who].borrowed_amount >= last'.amount)]_vars

\* C18: a handler makes every check of the message and of the Position
\* before it requests its first transfer, so that an action these checks
\* reject requests no transfer, and it writes the Position only once its
\* last transfer has succeeded.
C18_PhaseOrdering ==
    [][/\ last'.result \in ValidationErrors
          => (last'.sent = 0 /\ pending' = pending)
       /\ compound'.user_assets # user_assets
          => (last'.result = "Ok" /\ last'.sent = Transfers(last'.op))]_vars

\* A Lend has written the Position after its second transfer while another
\* handler is suspended.
C18_Witness ==
    /\ last.op = "Lend" /\ last.result = "Ok" /\ last.sent = 2
    /\ pending # EmptyBag

\* C19: when a Lend or a Withdraw has ended, on a contract with positive
\* rates, either it succeeded with both transfers made, or none of its
\* transfers has moved anything.
C19_TwoTransferAtomicity ==
    (ValidRates /\ last.op \in {"Lend", "Withdraw"})
        => \/ last.result = "Ok" /\ last.sent = 2
           \/ moved = NoneMoved

\* C20: with a positive exchange rate, every successful Lend and Withdraw
\* changes the caller's lentAmount by exactly the ctokens its transfer gave
\* to the caller or took back, so that lentAmount is the net amount of
\* ctokens issued to the account.
C20_ReceiptUnits ==
    [][(/\ last'.op \in {"Lend", "Withdraw"}
        /\ last'.result = "Ok"
        /\ compound.ctoken_rate > 0
        /\ last'.who \in DOMAIN compound'.user_assets)
       => compound'.user_assets[last'.who].lent_amount
            - (IF HasPosition(last'.who)
               THEN user_assets[last'.who].lent_amount ELSE 0)
          = moved'.ctoken]_vars

====
